---- MODULE Spec2Model ----
(***************************************************************************)
(* Reservation manager (src/src/main.py, src/src/models.py).               *)
(*                                                                         *)
(* The state is the three persisted JSON documents (hotels.json,           *)
(* customers.json, reservations.json) plus the lines the last menu         *)
(* function printed.  Every menu function is one action: it loads the      *)
(* collections it needs, works on the in-memory lists and saves what the   *)
(* code saves.  In the specifications below every save succeeds.  The list *)
(* and show functions change nothing; update_customer and                  *)
(* corrupt_hotels_file are left out.                                       *)
(*                                                                         *)
(* Encodings.  A date string "YYYY-MM-DD" is the triple <<y, m, d>> of its *)
(* numeric fields; a date value is the same triple once _parse_date has    *)
(* accepted it.  A reservation id "R%03d" % n with n >= 101 is the number  *)
(* n.  The text typed for a number is <<"blank">>, <<"int", n>> or         *)
(* <<"text">> (something int() rejects).                                   *)
(*                                                                         *)
(* The classes and loaders of models.py are also called on their own, as   *)
(* the unit tests call them: call is such a call with its arguments, ret   *)
(* what it returned or raised, out what it printed.  There a string is the *)
(* sequence of its characters, a stored record is a function from the keys *)
(* it has to their values, and a document is a record of its kind (missing *)
(* file, empty text, a JSON list, ...) and, for a list, of its items.      *)
(***************************************************************************)
EXTENDS Integers, Sequences, FiniteSets, TLC

VARIABLES hotels, customers, reservations, out, call, ret

vars == <<hotels, customers, reservations, out, call, ret>>

(* ------------------------------ bounds --------------------------------- *)

MaxRooms == 2
MaxRes == 2

\* the longest list of hotels, and of customers, that a delete is applied to
MaxListed == 3

\* the longest JSON list a data file holds when a loader is called on its own
MaxItems == 3

(* ------------------------------ inputs --------------------------------- *)

HotelIds == {"H001", "H002"}
CustomerIds == {"C001"}
RoomNumbers == {101}
DateStrings == {<<2025, 1, 1>>, <<2025, 1, 2>>, <<2025, 2, 30>>}
RoomCounts == (0 - 1)..MaxRooms
ResIds == 101..(101 + MaxRes)
Statuses == {"ACTIVE", "CANCELLED"}
Blank == <<"blank">>
NotANumber == <<"text">>
TotalTexts == {Blank, NotANumber} \cup {<<"int", n>> : n \in RoomCounts}
\* what is typed at the name and city prompts of update_hotel
HotelEdits == {<<"", "">>, <<"Mar", "GDL">>}

(* ------------------------------ models.py ------------------------------ *)

\* faulty variant: available_rooms is not held under total_rooms
HotelValid_NoUpper(total, available) ==
    /\ ~(total < 0)
    /\ 0 <= available

\* Hotel.__post_init__: the capacity bound (no ValueError is raised)
HotelValid(total, available) ==
    /\ ~(total < 0)
    /\ (0 <= available /\ available <= total)

IsLeap(y) == (y % 4 = 0 /\ y % 100 # 0) \/ y % 400 = 0

DaysInMonth(y, m) ==
    IF m \in {4, 6, 9, 11} THEN 30
    ELSE IF m = 2 THEN (IF IsLeap(y) THEN 29 ELSE 28)
    ELSE 31

\* _parse_date: strptime(value, "%Y-%m-%d") accepts the string
DateParses(s) ==
    /\ s[1] \in 1..9999
    /\ s[2] \in 1..12
    /\ s[3] \in 1..DaysInMonth(s[1], s[2])

\* date.__lt__
DateLess(a, b) ==
    \/ a[1] < b[1]
    \/ (a[1] = b[1] /\ a[2] < b[2])
    \/ (a[1] = b[1] /\ a[2] = b[2] /\ a[3] < b[3])

\* faulty variant: the status is not checked
ReservationValid_AnyStatus(check_in, check_out, status) ==
    /\ DateParses(check_in)
    /\ DateParses(check_out)
    /\ ~(~DateLess(check_in, check_out))

\* faulty variant: the date order is not checked
ReservationValid_NoOrder(check_in, check_out, status) ==
    /\ DateParses(check_in)
    /\ DateParses(check_out)
    /\ status \in {"ACTIVE", "CANCELLED"}

\* Reservation.__post_init__: no ValueError is raised
ReservationValid(check_in, check_out, status) ==
    /\ DateParses(check_in)
    /\ DateParses(check_out)
    /\ ~(~DateLess(check_in, check_out))
    /\ status \in {"ACTIVE", "CANCELLED"}

\* the first index whose record has this id, 0 for None
FirstWithId(coll, id) ==
    IF \E i \in 1..Len(coll) : coll[i].id = id
    THEN CHOOSE i \in 1..Len(coll) :
            /\ coll[i].id = id
            /\ \A j \in 1..(i - 1) : coll[j].id # id
    ELSE 0

\* faulty variant: falls back to the first hotel instead of None
find_hotel_OrFirst(hs, hotel_id) ==
    IF FirstWithId(hs, hotel_id) = 0 /\ Len(hs) > 0 THEN 1 ELSE FirstWithId(hs, hotel_id)

find_hotel(hs, hotel_id) == FirstWithId(hs, hotel_id)

\* faulty variant: no customer is ever found
find_customer_Never(cs, customer_id) == 0

find_customer(cs, customer_id) == FirstWithId(cs, customer_id)

find_reservation(rs, reservation_id) == FirstWithId(rs, reservation_id)

\* Hotel.load_all / Customer.load_all over a stored list of valid records
Hotel_load_all(doc) == doc

Customer_load_all(doc) == doc

\* Reservation.load_all: a record that fails validation is skipped
ReservationLoads(rec) == ReservationValid(rec.check_in, rec.check_out, rec.status)

\* faulty variant: the records that fail validation are kept
Reservation_load_all_KeepsAll(doc) == doc

Reservation_load_all(doc) == SelectSeq(doc, ReservationLoads)

(* ------------- models.py called on its own: text and dates ------------- *)

Digits == <<"0", "1", "2", "3", "4", "5", "6", "7", "8", "9">>

IsDigit(c) == \E i \in 1..Len(Digits) : Digits[i] = c

\* int(c) of one digit
DigitValue(c) == (CHOOSE i \in 1..Len(Digits) : Digits[i] = c) - 1

\* int(text) of a run of digits
RECURSIVE NumberOf(_)
NumberOf(text) ==
    IF text = <<>> THEN 0
    ELSE 10 * NumberOf(SubSeq(text, 1, Len(text) - 1)) + DigitValue(text[Len(text)])

\* "%0<width>d" % n, for n of at most width digits
Padded(n, width) ==
    [i \in 1..width |-> Digits[((n \div (10 ^ (width - i))) % 10) + 1]]

\* faulty variant: the day is written before the month
isoformat_DayFirst(d) ==
    Padded(d[1], 4) \o <<"-">> \o Padded(d[3], 2) \o <<"-">> \o Padded(d[2], 2)

\* date.isoformat(): "%04d-%02d-%02d" % (year, month, day)
isoformat(d) ==
    Padded(d[1], 4) \o <<"-">> \o Padded(d[2], 2) \o <<"-">> \o Padded(d[3], 2)

\* what strptime gives a text that does not match the format: no fields
NoFields == <<0, 0, 0>>

\* datetime.strptime(value, "%Y-%m-%d"), the matching: the text is four
\* digits, "-", one or two digits, "-", one or two digits (or a space and one
\* digit), and nothing else; the result is the three numbers
Fields(text) ==
    LET dashes == {i \in 1..Len(text) : text[i] = "-"}
    IN  IF Cardinality(dashes) # 2 THEN NoFields
        ELSE LET i == CHOOSE a \in dashes : \A b \in dashes : a <= b
                 j == CHOOSE a \in dashes : \A b \in dashes : b <= a
                 y == SubSeq(text, 1, i - 1)
                 m == SubSeq(text, i + 1, j - 1)
                 rest == SubSeq(text, j + 1, Len(text))
                 d == IF Len(rest) = 2 /\ rest[1] = " " THEN Tail(rest) ELSE rest
                 AllDigits(run) == \A k \in 1..Len(run) : IsDigit(run[k])
             IN  IF /\ Len(y) = 4 /\ AllDigits(y)
                    /\ Len(m) \in 1..2 /\ AllDigits(m)
                    /\ Len(d) \in 1..2 /\ AllDigits(d)
                 THEN <<NumberOf(y), NumberOf(m), NumberOf(d)>>
                 ELSE NoFields

\* a value of a date field: a text (as JSON stores it) or a date
Text(chars) == <<"str", chars>>

Date(d) == <<"date", d>>

\* the date field after "if isinstance(self.check_in, str): _parse_date(...)"
AsFields(v) == IF v[1] = "str" THEN Fields(v[2]) ELSE v[2]

(* ---------- models.py called on its own: the three dataclasses ---------- *)

\* a call returned v, after printing lines
ReturnedAfter(v, lines) == [raised |-> "", value |-> v, lines |-> lines]

Returned(v) == ReturnedAfter(v, <<>>)

\* a call raised the exception exc, after printing lines
RaisedAfter(exc, lines) == [raised |-> exc, value |-> <<>>, lines |-> lines]

Raised(exc) == RaisedAfter(exc, <<>>)

HotelKeys == {"id", "name", "city", "total_rooms", "available_rooms"}

CustomerKeys == {"id", "name", "email", "phone"}

ReservationKeys ==
    {"id", "hotel_id", "customer_id", "room_number", "check_in", "check_out", "status"}

\* status: str = field(default="ACTIVE"): the one key cls(**data) can do without
ReservationRequired == ReservationKeys \ {"status"}

\* Hotel(...): the generated __init__, then __post_init__
Hotel_new(id, name, city, total_rooms, available_rooms) ==
    IF HotelValid(total_rooms, available_rooms)
    THEN Returned([id |-> id, name |-> name, city |-> city,
                   total_rooms |-> total_rooms, available_rooms |-> available_rooms])
    ELSE Raised("ValueError")

\* asdict(self)
Hotel_to_dict(h) == [k \in HotelKeys |-> h[k]]

\* cls(**data): a missing or an unknown key is a TypeError
Hotel_from_dict(data) ==
    IF DOMAIN data # HotelKeys
    THEN Raised("TypeError")
    ELSE Hotel_new(data.id, data.name, data.city, data.total_rooms,
                   data.available_rooms)

Customer_to_dict(c) == [k \in CustomerKeys |-> c[k]]

\* cls(**data): Customer has no __post_init__
Customer_from_dict(data) ==
    IF DOMAIN data # CustomerKeys
    THEN Raised("TypeError")
    ELSE Returned([id |-> data.id, name |-> data.name, email |-> data.email,
                   phone |-> data.phone])

\* what _parse_date prints before it re-raises: the first text that fails
DateComplaint(check_in, check_out) ==
    IF check_in[1] = "str" /\ ~DateParses(Fields(check_in[2]))
    THEN << <<"Error de fecha invalida", check_in[2]>> >>
    ELSE IF check_out[1] = "str" /\ ~DateParses(Fields(check_out[2]))
    THEN << <<"Error de fecha invalida", check_out[2]>> >>
    ELSE <<>>

\* Reservation(...): check_in and check_out are texts or dates; the instance
\* holds dates
Reservation_new(id, hotel_id, customer_id, room_number, check_in, check_out, status) ==
    IF ReservationValid(AsFields(check_in), AsFields(check_out), status)
    THEN Returned([id |-> id, hotel_id |-> hotel_id, customer_id |-> customer_id,
                   room_number |-> room_number, check_in |-> AsFields(check_in),
                   check_out |-> AsFields(check_out), status |-> status])
    ELSE RaisedAfter("ValueError", DateComplaint(check_in, check_out))

\* asdict(self), then the two dates as ISO texts
Reservation_to_dict(r) ==
    [k \in ReservationKeys |->
        IF k \in {"check_in", "check_out"} THEN Text(isoformat(r[k])) ELSE r[k]]

Reservation_from_dict(data) ==
    IF ~(ReservationRequired \subseteq DOMAIN data /\ DOMAIN data \subseteq ReservationKeys)
    THEN Raised("TypeError")
    ELSE Reservation_new(data.id, data.hotel_id, data.customer_id, data.room_number,
                         data.check_in, data.check_out,
                         IF "status" \in DOMAIN data THEN data.status ELSE "ACTIVE")

(* ------------ models.py called on its own: the data files -------------- *)

\* the kinds of document a data file can be: no file; no text; white space
\* only; text that is not JSON; JSON that is not a list; a file that cannot be
\* read; bytes that are not UTF-8; a JSON list
DocumentKinds ==
    {"missing", "empty", "blank", "garbage", "object", "unreadable", "undecodable",
     "list"}

NotAList(kind) == [kind |-> kind, items |-> <<>>]

ListOf(items) == [kind |-> "list", items |-> items]

\* what open, read and json.loads raise inside the try of _safe_load_json
ReadRaises(kind) ==
    CASE kind = "missing" -> "FileNotFoundError"
      [] kind = "unreadable" -> "OSError"
      [] kind = "undecodable" -> "UnicodeDecodeError"
      [] kind = "garbage" -> "JSONDecodeError"
      [] OTHER -> ""

\* faulty variant: only the missing file is caught
Handled_OnlyMissing(exc) == exc = "FileNotFoundError"

\* the except clauses of _safe_load_json
Handled(exc) == exc \in {"FileNotFoundError", "JSONDecodeError", "OSError"}

\* _safe_load_json(path)
safe_load_json(doc) ==
    LET exc == ReadRaises(doc.kind)
    IN  IF exc # ""
        THEN IF Handled(exc)
             THEN ReturnedAfter(<<>>, << <<"Se asume lista vacia", exc>> >>)
             ELSE Raised(exc)
        ELSE IF doc.kind \in {"empty", "blank"}
        THEN ReturnedAfter(<<>>, << <<"Warning: vacio. Se asume lista vacia.">> >>)
        ELSE IF doc.kind = "list"
        THEN Returned(doc.items)
        ELSE ReturnedAfter(<<>>, << <<"Error: no contiene una lista JSON. Se asume lista vacia.">> >>)

\* [cls.from_dict(dct) for dct in data]: the first exception ends the
\* comprehension and leaves load_all
AllFromDict(made, lines) ==
    LET bad == {i \in 1..Len(made) : made[i].raised # ""}
    IN  IF bad = {}
        THEN ReturnedAfter([i \in 1..Len(made) |-> made[i].value], lines)
        ELSE LET first == CHOOSE i \in bad : \A j \in bad : i <= j
             IN  RaisedAfter(made[first].raised, lines)

\* Hotel.load_all() on any document
Hotel_load(doc) ==
    LET read == safe_load_json(doc)
    IN  IF read.raised # "" THEN read
        ELSE AllFromDict([i \in 1..Len(read.value) |-> Hotel_from_dict(read.value[i])],
                         read.lines)

\* Customer.load_all() on any document
Customer_load(doc) ==
    LET read == safe_load_json(doc)
    IN  IF read.raised # "" THEN read
        ELSE AllFromDict([i \in 1..Len(read.value) |-> Customer_from_dict(read.value[i])],
                         read.lines)

\* faulty variant: a TypeError (a missing key) is not caught
SkipCaught_ValueErrorOnly(exc) == exc = "ValueError"

\* except (ValueError, TypeError) in Reservation.load_all
SkipCaught(exc) == exc \in {"ValueError", "TypeError"}

\* dct.get("id", "<sin id>")
IdOrPlaceholder(dct) == IF "id" \in DOMAIN dct THEN dct.id ELSE "<sin id>"

\* the loop of Reservation.load_all over the first n items: the instances
\* appended and the lines printed so far, or the exception that left the loop
RECURSIVE LoadedReservations(_, _)
LoadedReservations(data, n) ==
    IF n = 0 THEN Returned(<<>>)
    ELSE LET sofar == LoadedReservations(data, n - 1)
             made == Reservation_from_dict(data[n])
         IN  IF sofar.raised # "" THEN sofar
             ELSE IF made.raised = ""
             THEN ReturnedAfter(Append(sofar.value, made.value), sofar.lines)
             ELSE IF SkipCaught(made.raised)
             THEN ReturnedAfter(sofar.value,
                                sofar.lines \o made.lines \o
                                << <<"Error al cargar reserva. Se omite.",
                                     IdOrPlaceholder(data[n])>> >>)
             ELSE RaisedAfter(made.raised, sofar.lines \o made.lines)

\* Reservation.load_all() on any document
Reservation_load(doc) ==
    LET read == safe_load_json(doc)
    IN  IF read.raised # "" THEN read
        ELSE LET loaded == LoadedReservations(read.value, Len(read.value))
             IN  [loaded EXCEPT !.lines = read.lines \o @]

(* ------------------------------- main.py ------------------------------- *)

\* what a menu function leaves behind: the three documents and the printed lines
\* saves: the data files the function writes, in the order it writes them
Result(hs, cs, rs, lines) ==
    [hotels |-> hs, customers |-> cs, reservations |-> rs, out |-> lines,
     saves |-> <<>>]

\* faulty variant: the files are written in the opposite order
Saving_Reversed(files, r) ==
    [r EXCEPT !.saves = [i \in 1..Len(files) |-> files[Len(files) + 1 - i]]]

\* the function called save_all for these files, in this order
Saving(files, r) == [r EXCEPT !.saves = files]

\* a return before any save
NoSave(st, lines) == Result(st.hotels, st.customers, st.reservations, lines)

create_hotel(st, hid, name, city, total, available) ==
    LET hs == Hotel_load_all(st.hotels)
    IN  IF find_hotel(hs, hid) # 0
        THEN NoSave(st, <<"Error: ya existe un hotel con ese ID.">>)
        ELSE IF ~HotelValid(total, available)
        THEN NoSave(st, <<"Error al crear hotel">>)
        ELSE Saving(<<"hotels">>, Result(Append(hs, [id |-> hid, name |-> name, city |-> city,
                                total_rooms |-> total,
                                available_rooms |-> available]),
                    st.customers, st.reservations, <<"Hotel creado.">>))

create_customer(st, cid, name, email, phone) ==
    LET cs == Customer_load_all(st.customers)
    IN  IF find_customer(cs, cid) # 0
        THEN NoSave(st, <<"Error: ya existe un cliente con ese ID.">>)
        ELSE Saving(<<"customers">>, Result(st.hotels,
                    Append(cs, [id |-> cid, name |-> name, email |-> email,
                                phone |-> phone]),
                    st.reservations, <<"Cliente creado.">>))

\* new_id = f"R{100 + len(reservations) + 1:03d}"
NewReservationId(rs) == 100 + Len(rs) + 1

\* faulty variant: a hotel with 0 available rooms still takes a reservation
NoAvailability_AllowZero(htl) == htl.available_rooms < 0

\* if htl.available_rooms <= 0: "hotel sin disponibilidad"
NoAvailability(htl) == htl.available_rooms <= 0

\* faulty variant: the room is taken from the first hotel of the list
Reserved_First(hs, h) == [hs EXCEPT ![1].available_rooms = @ - 1]

\* htl.available_rooms -= 1, on the loaded list
Reserved(hs, h) == [hs EXCEPT ![h].available_rooms = @ - 1]

create_reservation(st, hotel_id, customer_id, room, check_in, check_out) ==
    LET hs == Hotel_load_all(st.hotels)
        cs == Customer_load_all(st.customers)
        rs == Reservation_load_all(st.reservations)
        h == find_hotel(hs, hotel_id)
    IN  IF h = 0
        THEN NoSave(st, <<"Error: hotel no existe.">>)
        ELSE IF find_customer(cs, customer_id) = 0
        THEN NoSave(st, <<"Error: cliente no existe.">>)
        ELSE IF NoAvailability(hs[h])
        THEN NoSave(st, <<"Error: hotel sin disponibilidad.">>)
        ELSE IF ~ReservationValid(check_in, check_out, "ACTIVE")
        THEN NoSave(st, <<"Error al crear reserva">>)
        ELSE Saving(<<"reservations", "hotels">>, Result(Reserved(hs, h),
                    st.customers,
                    Append(rs, [id |-> NewReservationId(rs),
                                hotel_id |-> hotel_id,
                                customer_id |-> customer_id,
                                room_number |-> room,
                                check_in |-> check_in,
                                check_out |-> check_out,
                                status |-> "ACTIVE"]),
                    <<"Reserva creada con ID", NewReservationId(rs)>>))

\* the name and city edits of update_hotel, on the in-memory hotel
Renamed(htl, name, city) ==
    [htl EXCEPT !.name = IF name # "" THEN name ELSE @,
                !.city = IF city # "" THEN city ELSE @]

\* faulty variant: the refusal saves the name and city already set in memory
RejectResize_SavesEdits(st, hs, h, htl, occupied) ==
    Saving(<<"hotels">>, Result([hs EXCEPT ![h] = htl], st.customers, st.reservations,
           <<"Error: el nuevo total no puede ser menor a ocupadas", occupied>>))

\* the return of update_hotel when new_total < occupied: nothing is saved, so
\* the name and city already set on the in-memory hotel are dropped
RejectResize(st, hs, h, htl, occupied) ==
    NoSave(st, <<"Error: el nuevo total no puede ser menor a ocupadas", occupied>>)

\* faulty variant: the new total is stored, the availability is left as it was
Resized_KeepsAvailable(htl, new_total, occupied) ==
    [htl EXCEPT !.total_rooms = new_total]

\* htl.total_rooms = new_total; htl.available_rooms = new_total - occupied
Resized(htl, new_total, occupied) ==
    [htl EXCEPT !.total_rooms = new_total,
                !.available_rooms = new_total - occupied]

update_hotel(st, hid, name, city, total_s) ==
    LET hs == Hotel_load_all(st.hotels)
        h == find_hotel(hs, hid)
    IN  IF h = 0
        THEN NoSave(st, <<"No existe ese hotel.">>)
        ELSE LET htl == Renamed(hs[h], name, city)
                 occupied == htl.total_rooms - htl.available_rooms
             IN  IF total_s = Blank
                 THEN Saving(<<"hotels">>, Result([hs EXCEPT ![h] = htl], st.customers,
                             st.reservations, <<"Hotel actualizado.">>))
                 ELSE IF total_s = NotANumber
                 THEN NoSave(st, <<"Total invalido (debe ser entero).">>)
                 ELSE IF total_s[2] < occupied
                 THEN RejectResize(st, hs, h, htl, occupied)
                 ELSE Saving(<<"hotels">>, Result([hs EXCEPT ![h] = Resized(htl, total_s[2], occupied)],
                             st.customers, st.reservations,
                             <<"Hotel actualizado.">>))

\* faulty variant: the first entity of the list is dropped, whatever its id
Without_First(coll, id) == Tail(coll)

\* [x for x in coll if x.id != id]: the list that delete_* saves
Without(coll, id) ==
    LET Others(x) == x.id # id
    IN  SelectSeq(coll, Others)

\* faulty variant: the reservations of the deleted hotel are deleted with it
delete_hotel_Cascade(st, hid) ==
    LET hs == Hotel_load_all(st.hotels)
        rs == Reservation_load_all(st.reservations)
        IsActiveHere(r) == r.hotel_id = hid /\ r.status = "ACTIVE"
        Elsewhere(r) == r.hotel_id # hid
    IN  IF find_hotel(hs, hid) = 0
        THEN NoSave(st, <<"No existe ese hotel.">>)
        ELSE IF Len(SelectSeq(rs, IsActiveHere)) > 0
        THEN NoSave(st, <<"No se puede eliminar: hay reservaciones ACTIVAS para este hotel.">>)
        ELSE Saving(<<"hotels", "reservations">>, Result(Without(hs, hid), st.customers, SelectSeq(rs, Elsewhere),
                    <<"Hotel eliminado.">>))

\* faulty variant: the ACTIVE reservations of the hotel do not stop the delete
delete_hotel_Unguarded(st, hid) ==
    LET hs == Hotel_load_all(st.hotels)
    IN  IF find_hotel(hs, hid) = 0
        THEN NoSave(st, <<"No existe ese hotel.">>)
        ELSE Saving(<<"hotels">>,
                    Result(Without(hs, hid), st.customers, st.reservations,
                           <<"Hotel eliminado.">>))

delete_hotel(st, hid) ==
    LET hs == Hotel_load_all(st.hotels)
        rs == Reservation_load_all(st.reservations)
        IsActiveHere(r) == r.hotel_id = hid /\ r.status = "ACTIVE"
    IN  IF find_hotel(hs, hid) = 0
        THEN NoSave(st, <<"No existe ese hotel.">>)
        ELSE IF Len(SelectSeq(rs, IsActiveHere)) > 0
        THEN NoSave(st, <<"No se puede eliminar: hay reservaciones ACTIVAS para este hotel.">>)
        ELSE Saving(<<"hotels">>, Result(Without(hs, hid), st.customers, st.reservations,
                    <<"Hotel eliminado.">>))

delete_customer(st, cid) ==
    LET cs == Customer_load_all(st.customers)
        rs == Reservation_load_all(st.reservations)
        IsActiveHere(r) == r.customer_id = cid /\ r.status = "ACTIVE"
    IN  IF find_customer(cs, cid) = 0
        THEN NoSave(st, <<"No existe ese cliente.">>)
        ELSE IF Len(SelectSeq(rs, IsActiveHere)) > 0
        THEN NoSave(st, <<"No se puede eliminar: hay reservaciones ACTIVAS de este cliente.">>)
        ELSE Saving(<<"customers">>, Result(st.hotels, Without(cs, cid), st.reservations,
                    <<"Cliente eliminado.">>))

\* faulty variant: the status is not looked at
AlreadyCancelled_Never(res) == FALSE

\* if res.status == "CANCELLED": "ya estaba cancelada"
AlreadyCancelled(res) == res.status = "CANCELLED"

\* faulty variant: every loaded reservation is set to CANCELLED
Cancelled_All(rs, r) == [i \in 1..Len(rs) |-> [rs[i] EXCEPT !.status = "CANCELLED"]]

\* res.status = "CANCELLED", on the loaded list
Cancelled(rs, r) == [rs EXCEPT ![r].status = "CANCELLED"]

\* faulty variant: <= for <, a full hotel is incremented too
HasRoomToRelease_Always(htl) == htl.available_rooms <= htl.total_rooms

\* if htl.available_rooms < htl.total_rooms
HasRoomToRelease(htl) == htl.available_rooms < htl.total_rooms

\* faulty variant: the room is not given back
Released_Nothing(hs, h) == hs

\* htl.available_rooms += 1, on the loaded list
Released(hs, h) == [hs EXCEPT ![h].available_rooms = @ + 1]

cancel_reservation(st, res_id) ==
    LET rs == Reservation_load_all(st.reservations)
        hs == Hotel_load_all(st.hotels)
        r == find_reservation(rs, res_id)
    IN  IF r = 0
        THEN NoSave(st, <<"No existe esa reserva.">>)
        ELSE IF AlreadyCancelled(rs[r])
        THEN NoSave(st, <<"La reserva ya estaba cancelada.">>)
        ELSE LET cancelled == Cancelled(rs, r)
                 h == find_hotel(hs, rs[r].hotel_id)
             IN  IF h # 0
                 THEN IF HasRoomToRelease(hs[h])
                      THEN Saving(<<"reservations", "hotels">>, Result(Released(hs, h),
                                  st.customers, cancelled,
                                  <<"Reserva cancelada.">>))
                      ELSE Saving(<<"reservations">>, Result(st.hotels, st.customers, cancelled,
                                  <<"Aviso: disponibilidad ya estaba al maximo.",
                                    "Reserva cancelada.">>))
                 ELSE Saving(<<"reservations">>, Result(st.hotels, st.customers, cancelled,
                             <<"Aviso: hotel de la reserva no existe. No se ajusto stock.",
                               "Reserva cancelada.">>))

(* ------------------------------ the machine ---------------------------- *)

\* the documents as they are on disk
Stored == [hotels |-> hotels, customers |-> customers, reservations |-> reservations]

\* the menu is running: no class or loader is called on its own
NoCall == call = <<>> /\ ret = <<>>

\* the menu function ran to its end and left r behind
Becomes(r) ==
    /\ hotels' = r.hotels
    /\ customers' = r.customers
    /\ reservations' = r.reservations
    /\ out' = r.out
    /\ UNCHANGED <<call, ret>>

CreateHotel(hid, total, available) ==
    Becomes(create_hotel(Stored, hid, "Sol", "CDMX", total, available))

CreateCustomer(cid) ==
    Becomes(create_customer(Stored, cid, "Ana", "ana@mail.mx", "555"))

\* the stored collection is kept to MaxRes reservations
CreateReservation(hotel_id, customer_id, room, check_in, check_out) ==
    /\ Len(reservations) < MaxRes
    /\ Becomes(create_reservation(Stored, hotel_id, customer_id, room,
                                  check_in, check_out))

UpdateHotel(hid, edit, total_s) ==
    Becomes(update_hotel(Stored, hid, edit[1], edit[2], total_s))

DeleteHotel(hid) == Becomes(delete_hotel(Stored, hid))

DeleteCustomer(cid) == Becomes(delete_customer(Stored, cid))

CancelReservation(res_id) == Becomes(cancel_reservation(Stored, res_id))

DoCreateHotel == \E hid \in HotelIds, total \in RoomCounts, available \in RoomCounts :
    CreateHotel(hid, total, available)

DoCreateCustomer == \E cid \in CustomerIds : CreateCustomer(cid)

DoCreateReservation ==
    \E hotel_id \in HotelIds, customer_id \in CustomerIds, room \in RoomNumbers,
       check_in \in DateStrings, check_out \in DateStrings :
        CreateReservation(hotel_id, customer_id, room, check_in, check_out)

DoUpdateHotel == \E hid \in HotelIds, edit \in HotelEdits, total_s \in TotalTexts :
    UpdateHotel(hid, edit, total_s)

DoDeleteHotel == \E hid \in HotelIds : DeleteHotel(hid)

DoDeleteCustomer == \E cid \in CustomerIds : DeleteCustomer(cid)

DoCancelReservation == \E res_id \in ResIds : CancelReservation(res_id)

Next ==
    \/ DoCreateHotel
    \/ DoCreateCustomer
    \/ DoCreateReservation
    \/ DoUpdateHotel
    \/ DoDeleteHotel
    \/ DoDeleteCustomer
    \/ DoCancelReservation

\* a first run: no data file exists yet, every load gives the empty list
InitEmpty ==
    /\ hotels = <<>>
    /\ customers = <<>>
    /\ reservations = <<>>
    /\ out = <<>>
    /\ NoCall

SpecEmpty == InitEmpty /\ [][Next]_vars

\* the data files as an earlier session (or a test's setUp) may have left them:
\* any valid records, here at most one of each kind
InitHotels ==
    {<<>>} \cup
    {<<[id |-> "H001", name |-> "Sol", city |-> "CDMX",
        total_rooms |-> t, available_rooms |-> a]>> :
        t \in 0..MaxRooms, a \in 0..MaxRooms}

InitCustomers ==
    {<<>>, <<[id |-> "C001", name |-> "Ana", email |-> "ana@mail.mx", phone |-> "555"]>>}

InitReservations ==
    {<<>>} \cup
    {<<[id |-> n, hotel_id |-> h, customer_id |-> "C001", room_number |-> 101,
        check_in |-> <<2025, 1, 1>>, check_out |-> <<2025, 1, 2>>,
        status |-> s]>> :
        n \in {101, 102}, h \in HotelIds, s \in Statuses}

Init ==
    /\ hotels \in {hs \in InitHotels :
                      \A i \in 1..Len(hs) :
                          HotelValid(hs[i].total_rooms, hs[i].available_rooms)}
    /\ customers \in InitCustomers
    /\ reservations \in InitReservations
    /\ out = <<>>
    /\ NoCall

Spec == Init /\ [][Next]_vars

(* ---- the two delete functions over longer lists of hotels and customers ---- *)

ManyHotelIds == {"H001", "H002", "H003"}

ManyCustomerIds == {"C001", "C002", "C003"}

\* the lists without repetition of at most MaxListed members of S, in any order
Orderings(S) ==
    {s \in UNION {[1..n -> S] : n \in 0..MaxListed} :
        \A i, j \in 1..Len(s) : i # j => s[i] # s[j]}

\* at most MaxRes reservations, numbered as create_reservation numbers them
ManyReservations ==
    UNION {[1..n -> [hotel_id : ManyHotelIds, customer_id : ManyCustomerIds,
                     status : Statuses]] : n \in 0..MaxRes}

\* data files after some hotels and customers were created, in any order, and
\* some reservations were made and cancelled: an ACTIVE reservation has its
\* hotel and its customer stored, and holds one room of the hotel
InitMany ==
    /\ \E hids \in Orderings(ManyHotelIds), cids \in Orderings(ManyCustomerIds),
          rs \in ManyReservations :
          /\ \A i \in 1..Len(rs) :
                rs[i].status = "ACTIVE" =>
                    /\ \E j \in 1..Len(hids) : hids[j] = rs[i].hotel_id
                    /\ \E j \in 1..Len(cids) : cids[j] = rs[i].customer_id
          /\ reservations =
                [i \in 1..Len(rs) |->
                    [id |-> 100 + i, hotel_id |-> rs[i].hotel_id,
                     customer_id |-> rs[i].customer_id, room_number |-> 101,
                     check_in |-> <<2025, 1, 1>>, check_out |-> <<2025, 1, 2>>,
                     status |-> rs[i].status]]
          /\ hotels =
                [i \in 1..Len(hids) |->
                    [id |-> hids[i], name |-> "Sol", city |-> "CDMX",
                     total_rooms |-> MaxRes,
                     available_rooms |->
                        MaxRes - Cardinality({k \in 1..Len(rs) :
                                                 /\ rs[k].hotel_id = hids[i]
                                                 /\ rs[k].status = "ACTIVE"})]]
          /\ customers =
                [i \in 1..Len(cids) |->
                    [id |-> cids[i], name |-> "Ana", email |-> "ana@mail.mx",
                     phone |-> "555"]]
    /\ out = <<>>
    /\ NoCall

DoDeleteListedHotel == \E hid \in ManyHotelIds : DeleteHotel(hid)

DoDeleteListedCustomer == \E cid \in ManyCustomerIds : DeleteCustomer(cid)

NextDelete ==
    \/ DoDeleteListedHotel
    \/ DoDeleteListedCustomer

SpecDelete == InitMany /\ [][NextDelete]_vars

(* ------- the classes and loaders of models.py, called on their own ------ *)

\* the dates the calls are made with
SampleDates == {<<2025, 1, 2>>, <<2025, 12, 31>>, <<2024, 2, 29>>, <<999, 10, 9>>}

\* texts that are no ISO rendering of a date: months and days of one digit
\* (strptime accepts them), 30 February, slashes for dashes, no text
OddTexts ==
    {<<"2", "0", "2", "5", "-", "1", "-", "1">>,
     <<"2", "0", "2", "5", "-", "0", "2", "-", "3", "0">>,
     <<"2", "0", "2", "5", "/", "0", "1", "/", "0", "2">>,
     <<>>}

\* a date field of a call: a date, its ISO text, or an odd text
DateInputs ==
    {Date(d) : d \in SampleDates} \cup {Text(isoformat(d)) : d \in SampleDates}
    \cup {Text(t) : t \in OddTexts}

StatusInputs == Statuses \cup {"PENDING"}

\* instances that exist: the constructor returned them
SampleHotels ==
    {Hotel_new(id, "Sol", "CDMX", p[1], p[2]).value :
        id \in HotelIds,
        p \in {q \in RoomCounts \X RoomCounts : 0 <= q[2] /\ q[2] <= q[1]}}

SampleCustomers ==
    {[id |-> id, name |-> "Ana", email |-> "ana@mail.mx", phone |-> "555"] :
        id \in ManyCustomerIds}

SampleReservations ==
    {Reservation_new("R101", "H001", "C001", 101, Date(p[1]), Date(p[2]), s).value :
        p \in {q \in SampleDates \X SampleDates : DateLess(q[1], q[2])},
        s \in Statuses}

\* the record without one of its keys
Lacking(rec, key) == [k \in (DOMAIN rec) \ {key} |-> rec[k]]

\* stored hotel records: two valid ones, a negative total, more rooms
\* available than there are, and a record without its name
StoredHotelRecords ==
    LET rec(id, t, a) == [id |-> id, name |-> "Sol", city |-> "CDMX",
                          total_rooms |-> t, available_rooms |-> a]
    IN  {rec("H001", 2, 1), rec("H002", 1, 1), rec("H003", 0 - 1, 0),
         rec("H003", 1, 2), Lacking(rec("H003", 1, 1), "name")}

\* stored customer records: two valid ones and one without its email
StoredCustomerRecords ==
    LET rec(id) == [id |-> id, name |-> "Ana", email |-> "ana@mail.mx", phone |-> "555"]
    IN  {rec("C001"), rec("C002"), Lacking(rec("C003"), "email")}

\* stored reservation records: a valid one; a valid one with one-digit month
\* and day; check_in = check_out; an unknown status; 30 February; a record
\* without id; a record without status
StoredReservationRecords ==
    LET rec(id, ci, co, s) ==
            [id |-> id, hotel_id |-> "H001", customer_id |-> "C001",
             room_number |-> 101, check_in |-> Text(ci), check_out |-> Text(co),
             status |-> s]
        d1 == isoformat(<<2025, 1, 2>>)
        d2 == isoformat(<<2025, 12, 31>>)
    IN  {rec("R101", d1, d2, "ACTIVE"),
         rec("R102", <<"2", "0", "2", "5", "-", "1", "-", "1">>, d1, "CANCELLED"),
         rec("R103", d1, d1, "ACTIVE"),
         rec("R104", d1, d2, "PENDING"),
         rec("R105", <<"2", "0", "2", "5", "-", "0", "2", "-", "3", "0">>, d2, "ACTIVE"),
         Lacking(rec("R106", d1, d2, "ACTIVE"), "id"),
         Lacking(rec("R107", d1, d2, "CANCELLED"), "status")}

\* the documents a data file of these records can be
DocumentsOf(records) ==
    {NotAList(kind) : kind \in DocumentKinds \ {"list"}}
    \cup {ListOf(items) : items \in UNION {[1..n -> records] : n \in 0..MaxItems}}

Pending == [raised |-> "pending", value |-> <<>>]

\* a caller is about to make one call
InitModels ==
    /\ hotels = <<>>
    /\ customers = <<>>
    /\ reservations = <<>>
    /\ out = <<>>
    /\ ret = Pending
    /\ \/ call \in {[fn |-> "Hotel", arg |-> <<t, a>>] : t \in RoomCounts, a \in RoomCounts}
       \/ call \in {[fn |-> "Reservation", arg |-> <<ci, co, s>>] :
                       ci \in DateInputs, co \in DateInputs, s \in StatusInputs}
       \/ call \in {[fn |-> "Hotel.load_all", arg |-> d] :
                       d \in DocumentsOf(StoredHotelRecords)}
       \/ call \in {[fn |-> "Customer.load_all", arg |-> d] :
                       d \in DocumentsOf(StoredCustomerRecords)}
       \/ call \in {[fn |-> "Reservation.load_all", arg |-> d] :
                       d \in DocumentsOf(StoredReservationRecords)}
       \/ call \in {[fn |-> "Hotel.from_dict(to_dict)", arg |-> h] : h \in SampleHotels}
       \/ call \in {[fn |-> "Customer.from_dict(to_dict)", arg |-> c] :
                       c \in SampleCustomers}
       \/ call \in {[fn |-> "Reservation.from_dict(to_dict)", arg |-> r] :
                       r \in SampleReservations}
       \/ call \in {[fn |-> "Hotel.from_dict", arg |-> Lacking(Hotel_to_dict(h), k)] :
                       h \in SampleHotels, k \in HotelKeys}
       \/ call \in {[fn |-> "Customer.from_dict", arg |-> Lacking(Customer_to_dict(c), k)] :
                       c \in SampleCustomers, k \in CustomerKeys}
       \/ call \in {[fn |-> "Reservation.from_dict",
                      arg |-> Lacking(Reservation_to_dict(r), k)] :
                       r \in SampleReservations, k \in ReservationKeys}

\* the call in flight returns or raises
Finishes(fn, outcome) ==
    /\ call.fn = fn
    /\ ret.raised = "pending"
    /\ ret' = [raised |-> outcome.raised, value |-> outcome.value]
    /\ out' = outcome.lines
    /\ UNCHANGED <<hotels, customers, reservations, call>>

NewHotel ==
    Finishes("Hotel", Hotel_new("H001", "Sol", "CDMX", call.arg[1], call.arg[2]))

NewReservation ==
    Finishes("Reservation",
             Reservation_new("R101", "H001", "C001", 101,
                             call.arg[1], call.arg[2], call.arg[3]))

LoadHotels == Finishes("Hotel.load_all", Hotel_load(call.arg))

LoadCustomers == Finishes("Customer.load_all", Customer_load(call.arg))

LoadReservations == Finishes("Reservation.load_all", Reservation_load(call.arg))

\* Hotel.from_dict(htl.to_dict()), as a test of the round trip calls it
HotelRoundTrip ==
    Finishes("Hotel.from_dict(to_dict)", Hotel_from_dict(Hotel_to_dict(call.arg)))

CustomerRoundTrip ==
    Finishes("Customer.from_dict(to_dict)",
             Customer_from_dict(Customer_to_dict(call.arg)))

ReservationRoundTrip ==
    Finishes("Reservation.from_dict(to_dict)",
             Reservation_from_dict(Reservation_to_dict(call.arg)))

\* from_dict on a mapping that has lost one key
HotelFromDict == Finishes("Hotel.from_dict", Hotel_from_dict(call.arg))

CustomerFromDict == Finishes("Customer.from_dict", Customer_from_dict(call.arg))

ReservationFromDict == Finishes("Reservation.from_dict", Reservation_from_dict(call.arg))

NextModels ==
    \/ NewHotel
    \/ NewReservation
    \/ LoadHotels
    \/ LoadCustomers
    \/ LoadReservations
    \/ HotelRoundTrip
    \/ CustomerRoundTrip
    \/ ReservationRoundTrip
    \/ HotelFromDict
    \/ CustomerFromDict
    \/ ReservationFromDict

SpecModels == InitModels /\ [][NextModels]_vars

(* ------- the menu functions write by write, with saves that can fail ------ *)

\* no menu function is running
Idle == [stage |-> "idle"]

\* a menu function has loaded the files (before), computed r and has r.saves
\* still to write
Running(r) == [stage |-> "running", saves |-> r.saves, result |-> r, before |-> Stored]

\* the menu function that leaves r behind starts: it loads and computes
Begin(r) ==
    /\ call.stage = "idle"
    /\ call' = Running(r)
    /\ out' = <<>>
    /\ UNCHANGED <<hotels, customers, reservations, ret>>

DoBegin ==
    \/ \E hid \in HotelIds, total \in RoomCounts, available \in RoomCounts :
          Begin(create_hotel(Stored, hid, "Sol", "CDMX", total, available))
    \/ \E cid \in CustomerIds :
          Begin(create_customer(Stored, cid, "Ana", "ana@mail.mx", "555"))
    \/ \E hotel_id \in HotelIds, customer_id \in CustomerIds, room \in RoomNumbers,
          check_in \in DateStrings, check_out \in DateStrings :
          /\ Len(reservations) < MaxRes
          /\ Begin(create_reservation(Stored, hotel_id, customer_id, room,
                                      check_in, check_out))
    \/ \E hid \in HotelIds, total_s \in TotalTexts :
          Begin(update_hotel(Stored, hid, "", "", total_s))
    \/ \E hid \in HotelIds : Begin(delete_hotel(Stored, hid))
    \/ \E cid \in CustomerIds : Begin(delete_customer(Stored, cid))
    \/ \E res_id \in ResIds : Begin(cancel_reservation(Stored, res_id))

\* the three data files with the file named f replaced by doc
FilesWith(f, doc) ==
    /\ hotels' = IF f = "hotels" THEN doc ELSE hotels
    /\ customers' = IF f = "customers" THEN doc ELSE customers
    /\ reservations' = IF f = "reservations" THEN doc ELSE reservations

\* _safe_save_json writes the next file of the running function
WriteSucceeds ==
    /\ call.stage = "running"
    /\ call.saves # <<>>
    /\ FilesWith(Head(call.saves), call.result[Head(call.saves)])
    /\ call' = [call EXCEPT !.saves = Tail(@)]
    /\ UNCHANGED <<out, ret>>

\* faulty variant: the OSError is not caught
WriteHandled_Never(exc) == FALSE

\* except OSError in _safe_save_json
WriteHandled(exc) == exc = "OSError"

\* makedirs, open or json.dump raises OSError: the file is as it was (the
\* failure came before open) or cut to nothing (it came after); the error is
\* printed and the function goes on, or, uncaught, ends in the menu's except
WriteFails ==
    /\ call.stage = "running"
    /\ call.saves # <<>>
    /\ \E kept \in BOOLEAN :
          FilesWith(Head(call.saves),
                    IF kept THEN Stored[Head(call.saves)] ELSE <<>>)
    /\ IF WriteHandled("OSError")
       THEN /\ call' = [call EXCEPT !.saves = Tail(@)]
            /\ out' = Append(out, "Error de E/S al escribir")
       ELSE /\ call' = Idle
            /\ out' = Append(out, "Error inesperado")
    /\ UNCHANGED ret

\* after its last save the function prints its closing lines and returns
Finish ==
    /\ call.stage = "running"
    /\ call.saves = <<>>
    /\ call' = Idle
    /\ out' = out \o call.result.out
    /\ UNCHANGED <<hotels, customers, reservations, ret>>

NextWrites ==
    \/ DoBegin
    \/ WriteSucceeds
    \/ WriteFails
    \/ Finish

InitWrites ==
    /\ hotels = <<>>
    /\ customers = <<>>
    /\ reservations = <<>>
    /\ out = <<>>
    /\ call = Idle
    /\ ret = <<>>

SpecWrites == InitWrites /\ [][NextWrites]_vars

(* --------- reservations.json holding records that load_all skips ------- *)

\* records of the reservations file for which Reservation.from_dict raises
\* ValueError: a status that is neither ACTIVE nor CANCELLED, a check_in
\* that is no date of the calendar, a check_out that is not after check_in
SkippedRecords ==
    {[id |-> 101, hotel_id |-> "H001", customer_id |-> "C001", room_number |-> 101,
      check_in |-> d[1], check_out |-> d[2], status |-> d[3]] :
        d \in {<<<<2025, 1, 1>>, <<2025, 1, 2>>, "PENDING">>,
               <<<<2025, 2, 30>>, <<2025, 1, 2>>, "ACTIVE">>,
               <<<<2025, 1, 2>>, <<2025, 1, 2>>, "ACTIVE">>}}

\* a skipped record alone, or next to one record that loads, in either order
DirtyReservations ==
    LET loading == {good \in InitReservations : good # <<>> /\ good[1].id = 102}
    IN  {<<bad>> : bad \in SkippedRecords}
        \cup {<<bad, good[1]>> : bad \in SkippedRecords, good \in loading}
        \cup {<<good[1], bad>> : bad \in SkippedRecords, good \in loading}

InitDirty ==
    /\ hotels \in {hs \in InitHotels :
                      \A i \in 1..Len(hs) :
                          HotelValid(hs[i].total_rooms, hs[i].available_rooms)}
    /\ customers \in InitCustomers
    /\ reservations \in DirtyReservations
    /\ out = <<>>
    /\ NoCall

SpecDirty == InitDirty /\ [][Next]_vars

(* ------------------------------ properties ----------------------------- *)

\* occupied rooms of a hotel: total_rooms - available_rooms
Occupied(htl) == htl.total_rooms - htl.available_rooms

\* the number of ACTIVE reservations stored for a hotel id
ActiveFor(rs, hid) ==
    Cardinality({i \in 1..Len(rs) : rs[i].hotel_id = hid /\ rs[i].status = "ACTIVE"})

\* the stored hotel ids
StoredHotelIds(hs) == {hs[i].id : i \in 1..Len(hs)}

\* the stored hotel with this id (ids are unique keys)
HotelOf(hs, hid) == hs[FirstWithId(hs, hid)]

\* the last menu function printed this as its first line
Printed(line) == Len(out) > 0 /\ out[1] = line

\* C1: in every reachable state every stored hotel has total_rooms >= 0 and
\* 0 <= available_rooms <= total_rooms.
C1_HotelBounds ==
    \A i \in 1..Len(hotels) :
        /\ hotels[i].total_rooms >= 0
        /\ 0 <= hotels[i].available_rooms
        /\ hotels[i].available_rooms <= hotels[i].total_rooms

\* a reservation has just taken the last free room of a hotel
C1_Witness ==
    /\ Printed("Reserva creada con ID")
    /\ \E i \in 1..Len(hotels) :
           hotels[i].available_rooms = 0 /\ hotels[i].total_rooms > 0

\* C2 as stated: from empty collections, for every hotel the occupied count
\* equals the number of ACTIVE reservations for it.
C2_OccupiedEqualsActive ==
    \A i \in 1..Len(hotels) :
        Occupied(hotels[i]) = ActiveFor(reservations, hotels[i].id)

\* C2 as amended: from empty collections, the occupied count of every hotel is
\* at least the number of ACTIVE reservations for it, and no operation changes
\* the difference of the two for a hotel that stays in the collection (the
\* difference is the occupied count the hotel was created with).
C2_OccupiedTracksActive ==
    /\ [](\A i \in 1..Len(hotels) :
            Occupied(hotels[i]) >= ActiveFor(reservations, hotels[i].id))
    /\ [][\A hid \in StoredHotelIds(hotels) \cap StoredHotelIds(hotels') :
            Occupied(HotelOf(hotels', hid)) - ActiveFor(reservations', hid)
              = Occupied(HotelOf(hotels, hid)) - ActiveFor(reservations, hid)]_vars

\* a hotel created with rooms already occupied has taken a reservation and
\* had one cancelled
C2_Witness ==
    /\ Printed("Reserva cancelada.")
    /\ \E i \in 1..Len(hotels) :
           /\ ActiveFor(reservations, hotels[i].id) >= 1
           /\ Occupied(hotels[i]) > ActiveFor(reservations, hotels[i].id)

\* the dates typed for a reservation pass Reservation.__post_init__
DatesAccepted(check_in, check_out) ==
    DateParses(check_in) /\ DateParses(check_out) /\ DateLess(check_in, check_out)

\* the three documents a menu function leaves behind
Documents(r) == <<r.hotels, r.customers, r.reservations>>

\* C3: in every reachable state, create reservation with an existing hotel
\* that has a free room, an existing customer and valid dates appends exactly
\* one ACTIVE reservation, leaves the earlier reservations as they were, takes
\* exactly one room from that hotel and changes no other hotel and no customer.
C3_CreateReservationEffect ==
    \A hotel_id \in HotelIds, customer_id \in CustomerIds, room \in RoomNumbers,
       check_in \in DateStrings, check_out \in DateStrings :
        ( /\ hotel_id \in StoredHotelIds(hotels)
          /\ \E c \in 1..Len(customers) : customers[c].id = customer_id
          /\ HotelOf(hotels, hotel_id).available_rooms > 0
          /\ DatesAccepted(check_in, check_out) )
        =>
        LET after == create_reservation(Stored, hotel_id, customer_id, room,
                                        check_in, check_out)
            added == after.reservations[Len(after.reservations)]
        IN  /\ Len(after.reservations) = Len(reservations) + 1
            /\ SubSeq(after.reservations, 1, Len(reservations)) = reservations
            /\ added.status = "ACTIVE"
            /\ added.hotel_id = hotel_id
            /\ added.customer_id = customer_id
            /\ after.customers = customers
            /\ Len(after.hotels) = Len(hotels)
            /\ \A i \in 1..Len(hotels) :
                   after.hotels[i] =
                       IF hotels[i].id = hotel_id
                       THEN [hotels[i] EXCEPT !.available_rooms = @ - 1]
                       ELSE hotels[i]

\* a reservation was created for the second of two hotels, after an earlier one
C3_Witness ==
    /\ Printed("Reserva creada con ID")
    /\ Len(reservations) >= 2
    /\ Len(hotels) = 2
    /\ reservations[Len(reservations)].hotel_id = hotels[2].id
    /\ reservations[Len(reservations)].status = "ACTIVE"

\* C4: in every reachable state, create reservation with a missing hotel, a
\* missing customer, a hotel with no available room or dates that fail
\* validation reports an error and changes none of the three stored
\* collections.
C4_CreateReservationRejected ==
    \A hotel_id \in HotelIds, customer_id \in CustomerIds, room \in RoomNumbers,
       check_in \in DateStrings, check_out \in DateStrings :
        ( \/ hotel_id \notin StoredHotelIds(hotels)
          \/ \A c \in 1..Len(customers) : customers[c].id # customer_id
          \/ HotelOf(hotels, hotel_id).available_rooms = 0
          \/ ~DatesAccepted(check_in, check_out) )
        =>
        LET after == create_reservation(Stored, hotel_id, customer_id, room,
                                        check_in, check_out)
        IN  /\ Documents(after) = <<hotels, customers, reservations>>
            /\ after.out[1] \in {"Error: hotel no existe.",
                                 "Error: cliente no existe.",
                                 "Error: hotel sin disponibilidad.",
                                 "Error al crear reserva"}

\* a reservation was refused for its dates although hotel, customer and room
\* were there
C4_Witness ==
    /\ Printed("Error al crear reserva")
    /\ \E i \in 1..Len(hotels) : hotels[i].available_rooms > 0
    /\ Len(customers) > 0

\* the reservation a cancel for res_id acts on: the first one with that id
Addressed(res_id) == FirstWithId(reservations, res_id)

\* C5: in every reachable state, cancel of an ACTIVE reservation whose hotel
\* exists with available_rooms < total_rooms sets that reservation to
\* CANCELLED, gives exactly one room back to that hotel and changes no other
\* reservation, no other hotel and no customer.
C5_CancelEffect ==
    \A res_id \in ResIds :
        ( /\ Addressed(res_id) # 0
          /\ reservations[Addressed(res_id)].status = "ACTIVE"
          /\ reservations[Addressed(res_id)].hotel_id \in StoredHotelIds(hotels)
          /\ LET htl == HotelOf(hotels, reservations[Addressed(res_id)].hotel_id)
             IN  htl.available_rooms < htl.total_rooms )
        =>
        LET after == cancel_reservation(Stored, res_id)
        IN  /\ after.reservations =
                   [reservations EXCEPT ![Addressed(res_id)].status = "CANCELLED"]
            /\ after.customers = customers
            /\ Len(after.hotels) = Len(hotels)
            /\ \A i \in 1..Len(hotels) :
                   after.hotels[i] =
                       IF hotels[i].id = reservations[Addressed(res_id)].hotel_id
                       THEN [hotels[i] EXCEPT !.available_rooms = @ + 1]
                       ELSE hotels[i]

\* a cancel gave a room back while another reservation stayed ACTIVE and a
\* second hotel was stored
C5_Witness ==
    /\ out = <<"Reserva cancelada.">>
    /\ Len(hotels) = 2
    /\ \E i, j \in 1..Len(reservations) :
           reservations[i].status = "CANCELLED" /\ reservations[j].status = "ACTIVE"

\* C6: in every reachable state, cancel of a reservation that is already
\* CANCELLED changes no stored collection, and cancelling any id twice leaves
\* the documents that cancelling it once leaves.
C6_CancelIdempotent ==
    \A res_id \in ResIds :
        LET once == cancel_reservation(Stored, res_id)
            twice == cancel_reservation(once, res_id)
        IN  /\ ( Addressed(res_id) # 0
                 /\ reservations[Addressed(res_id)].status = "CANCELLED" )
               => ( /\ Documents(once) = <<hotels, customers, reservations>>
                    /\ once.out = <<"La reserva ya estaba cancelada.">> )
            /\ Documents(twice) = Documents(once)

\* a cancel found its reservation already CANCELLED
C6_Witness ==
    /\ out = <<"La reserva ya estaba cancelada.">>
    /\ \E i \in 1..Len(reservations) : reservations[i].status = "CANCELLED"

\* C7: in every reachable state, for a hotel with a > 0 available rooms,
\* creating a reservation for it and then cancelling the reservation id just
\* created leaves the hotel with a available rooms and its total_rooms, and
\* the created reservation stored as CANCELLED.
C7_CreateThenCancelRestores ==
    \A hotel_id \in HotelIds, customer_id \in CustomerIds, room \in RoomNumbers :
        ( /\ hotel_id \in StoredHotelIds(hotels)
          /\ \E c \in 1..Len(customers) : customers[c].id = customer_id
          /\ HotelOf(hotels, hotel_id).available_rooms > 0 )
        =>
        LET created == create_reservation(Stored, hotel_id, customer_id, room,
                                          <<2025, 1, 1>>, <<2025, 1, 2>>)
            at == Len(created.reservations)
            after == cancel_reservation(created, created.reservations[at].id)
        IN  /\ HotelOf(after.hotels, hotel_id).available_rooms
                   = HotelOf(hotels, hotel_id).available_rooms
            /\ HotelOf(after.hotels, hotel_id).total_rooms
                   = HotelOf(hotels, hotel_id).total_rooms
            /\ after.reservations[at].status = "CANCELLED"

\* C8: in every reachable state, cancel of an ACTIVE reservation whose hotel
\* exists with available_rooms = total_rooms stores the reservation as
\* CANCELLED, warns, and leaves the hotel collection (and the customers) as
\* they were.
C8_CancelAtMaximum ==
    \A res_id \in ResIds :
        ( /\ Addressed(res_id) # 0
          /\ reservations[Addressed(res_id)].status = "ACTIVE"
          /\ reservations[Addressed(res_id)].hotel_id \in StoredHotelIds(hotels)
          /\ LET htl == HotelOf(hotels, reservations[Addressed(res_id)].hotel_id)
             IN  htl.available_rooms = htl.total_rooms )
        =>
        LET after == cancel_reservation(Stored, res_id)
        IN  /\ after.reservations =
                   [reservations EXCEPT ![Addressed(res_id)].status = "CANCELLED"]
            /\ after.hotels = hotels
            /\ after.customers = customers
            /\ after.out = <<"Aviso: disponibilidad ya estaba al maximo.",
                             "Reserva cancelada.">>

\* a cancel found the hotel of its reservation already at full availability
C8_Witness ==
    /\ Printed("Aviso: disponibilidad ya estaba al maximo.")
    /\ \E i \in 1..Len(reservations) :
           /\ reservations[i].status = "CANCELLED"
           /\ reservations[i].hotel_id \in StoredHotelIds(hotels)
           /\ LET htl == HotelOf(hotels, reservations[i].hotel_id)
              IN  htl.available_rooms = htl.total_rooms

\* C9: in every reachable state, cancel of an ACTIVE reservation whose
\* hotel_id matches no stored hotel stores the reservation as CANCELLED, warns,
\* and leaves the hotel collection (and the customers) as they were.
C9_CancelWithoutHotel ==
    \A res_id \in ResIds :
        ( /\ Addressed(res_id) # 0
          /\ reservations[Addressed(res_id)].status = "ACTIVE"
          /\ reservations[Addressed(res_id)].hotel_id \notin StoredHotelIds(hotels) )
        =>
        LET after == cancel_reservation(Stored, res_id)
        IN  /\ after.reservations =
                   [reservations EXCEPT ![Addressed(res_id)].status = "CANCELLED"]
            /\ after.hotels = hotels
            /\ after.customers = customers
            /\ after.out = <<"Aviso: hotel de la reserva no existe. No se ajusto stock.",
                             "Reserva cancelada.">>

\* a cancel found no hotel for its reservation while another hotel, with a
\* room taken, was stored
C9_Witness ==
    /\ Printed("Aviso: hotel de la reserva no existe. No se ajusto stock.")
    /\ \E i \in 1..Len(reservations) :
           /\ reservations[i].status = "CANCELLED"
           /\ reservations[i].hotel_id \notin StoredHotelIds(hotels)
    /\ \E i \in 1..Len(hotels) : hotels[i].available_rooms < hotels[i].total_rooms

\* C10: in every reachable state, an edit of a stored hotel that asks for a
\* total below the occupied count is refused and leaves the three stored
\* collections as they were, whatever name and city the same edit supplies.
C10_ResizeRejected ==
    \A hid \in HotelIds, edit \in HotelEdits, n \in RoomCounts :
        ( /\ hid \in StoredHotelIds(hotels)
          /\ n < Occupied(HotelOf(hotels, hid)) )
        =>
        LET after == update_hotel(Stored, hid, edit[1], edit[2], <<"int", n>>)
        IN  /\ after.hotels = hotels
            /\ after.customers = customers
            /\ after.reservations = reservations
            /\ after.out[1] = "Error: el nuevo total no puede ser menor a ocupadas"

\* a resize below the occupied count was refused for a hotel that still has
\* the name and city it was created with
C10_Witness ==
    /\ Printed("Error: el nuevo total no puede ser menor a ocupadas")
    /\ out[2] >= 1
    /\ \E i \in 1..Len(hotels) :
           /\ Occupied(hotels[i]) = out[2]
           /\ hotels[i].name = "Sol"
           /\ hotels[i].city = "CDMX"

\* C11: when update_hotel is given a new total that is at least the occupied
\* count of the hotel, the stored hotel gets total_rooms = new_total and
\* available_rooms = new_total - (old total - old available), and no other
\* hotel, no customer and no reservation changes.
C11_ResizeAccepted ==
    \A hid \in HotelIds, edit \in HotelEdits, n \in RoomCounts :
        ( /\ hid \in StoredHotelIds(hotels)
          /\ n >= Occupied(HotelOf(hotels, hid)) )
        =>
        LET old == HotelOf(hotels, hid)
            after == update_hotel(Stored, hid, edit[1], edit[2], <<"int", n>>)
        IN  /\ Len(after.hotels) = Len(hotels)
            /\ \A i \in 1..Len(hotels) :
                  IF hotels[i].id = hid
                  THEN /\ after.hotels[i].id = hid
                       /\ after.hotels[i].total_rooms = n
                       /\ after.hotels[i].available_rooms =
                              n - (old.total_rooms - old.available_rooms)
                  ELSE after.hotels[i] = hotels[i]
            /\ after.customers = customers
            /\ after.reservations = reservations
            /\ after.out = <<"Hotel actualizado.">>

\* an update was saved while a second hotel is stored and one hotel has both
\* occupied and free rooms
C11_Witness ==
    /\ Printed("Hotel actualizado.")
    /\ Len(hotels) = 2
    /\ \E i \in 1..Len(hotels) :
          /\ Occupied(hotels[i]) >= 1
          /\ hotels[i].available_rooms >= 1
          /\ hotels[i].name = "Mar"

\* the number of ACTIVE reservations of a customer
ActiveOf(rs, cid) ==
    Cardinality({i \in 1..Len(rs) : rs[i].customer_id = cid /\ rs[i].status = "ACTIVE"})

\* after is before with its k-th member taken out and the others in their order
RemovedAt(before, after, k) ==
    /\ Len(after) = Len(before) - 1
    /\ \A i \in 1..Len(after) : after[i] = IF i < k THEN before[i] ELSE before[i + 1]

\* C12: deleting a stored hotel (customer) is refused, with nothing changed,
\* when at least one ACTIVE reservation references its id; when none does
\* (no reservation, or only CANCELLED ones) the delete removes exactly that
\* entity, keeps the others in their order, and leaves the reservations and
\* the other entity collection as they were.
C12_DeleteGuarded ==
    /\ \A hid \in ManyHotelIds :
          hid \in StoredHotelIds(hotels) =>
          LET after == delete_hotel(Stored, hid)
          IN  /\ after.customers = customers
              /\ after.reservations = reservations
              /\ IF ActiveFor(reservations, hid) >= 1
                 THEN after.hotels = hotels /\ after.out # <<"Hotel eliminado.">>
                 ELSE /\ after.out = <<"Hotel eliminado.">>
                      /\ RemovedAt(hotels, after.hotels, FirstWithId(hotels, hid))
                      /\ hid \notin StoredHotelIds(after.hotels)
    /\ \A cid \in ManyCustomerIds :
          FirstWithId(customers, cid) # 0 =>
          LET after == delete_customer(Stored, cid)
          IN  /\ after.hotels = hotels
              /\ after.reservations = reservations
              /\ IF ActiveOf(reservations, cid) >= 1
                 THEN after.customers = customers /\ after.out # <<"Cliente eliminado.">>
                 ELSE /\ after.out = <<"Cliente eliminado.">>
                      /\ RemovedAt(customers, after.customers, FirstWithId(customers, cid))
                      /\ FirstWithId(after.customers, cid) = 0

\* a hotel that only a CANCELLED reservation references was deleted from a
\* list of three, and an ACTIVE reservation of another hotel is still stored
C12_Witness ==
    /\ out = <<"Hotel eliminado.">>
    /\ Len(hotels) = 2
    /\ \E i \in 1..Len(reservations) :
          /\ reservations[i].status = "CANCELLED"
          /\ reservations[i].hotel_id \notin StoredHotelIds(hotels)
    /\ \E i \in 1..Len(reservations) : reservations[i].status = "ACTIVE"

\* C13: in every step, every persisted reservation stays in the persisted
\* collection, at its place and with its fields, and its status either stays
\* or moves from ACTIVE to CANCELLED (never from CANCELLED to ACTIVE); every
\* reservation a step adds is ACTIVE. Deleting a hotel or a customer removes
\* no reservation.
C13_ReservationLifecycle ==
    [][ /\ Len(reservations') >= Len(reservations)
        /\ \A i \in 1..Len(reservations) :
              /\ [reservations'[i] EXCEPT !.status = "ACTIVE"] =
                 [reservations[i] EXCEPT !.status = "ACTIVE"]
              /\ \/ reservations'[i].status = reservations[i].status
                 \/ /\ reservations[i].status = "ACTIVE"
                    /\ reservations'[i].status = "CANCELLED"
        /\ \A i \in (Len(reservations) + 1)..Len(reservations') :
              reservations'[i].status = "ACTIVE" ]_vars

\* a hotel was deleted, its CANCELLED reservation is still stored, next to an
\* ACTIVE reservation of another hotel
C13_Witness ==
    /\ out = <<"Hotel eliminado.">>
    /\ Len(reservations) = 2
    /\ reservations[1].status = "CANCELLED"
    /\ reservations[1].hotel_id \notin StoredHotelIds(hotels)
    /\ reservations[2].status = "ACTIVE"

\* C14: the id create_reservation gives a new reservation, "R" followed by
\* 100 + (number of loaded reservations) + 1, differs from every id of the
\* loaded collection, so the persisted collection never holds two
\* reservations with the same id.
C14_ReservationIdsUnique ==
    \A i, j \in 1..Len(reservations) :
        i # j => reservations[i].id # reservations[j].id

\* the call in flight has returned or raised
Done(fn) == call.fn = fn /\ ret.raised # "pending"

LoaderNames == {"Hotel.load_all", "Customer.load_all", "Reservation.load_all"}

\* C15: load_all of each of the three classes, on a data file that is
\* missing, empty, white space only, not valid JSON, or valid JSON that is
\* not a list, returns the empty list, prints a diagnostic and raises
\* nothing.
C15_ReadIsTotal ==
    \A fn \in LoaderNames :
        ( /\ Done(fn)
          /\ call.arg.kind \in {"missing", "empty", "blank", "garbage", "object"} )
        =>
        /\ ret.raised = ""
        /\ ret.value = <<>>
        /\ Len(out) >= 1

\* Reservation.load_all returned from a data file that is not valid JSON
C15_Witness ==
    /\ Done("Reservation.load_all")
    /\ call.arg.kind = "garbage"
    /\ ret.raised = ""
    /\ ret.value = <<>>
    /\ Len(out) = 1

\* a stored reservation record passes the validation of the class: it has
\* every key but perhaps status and no other key, its two dates are texts
\* strptime accepts, check_in is before check_out, and its status, if it has
\* one, is ACTIVE or CANCELLED
PassesValidation(rec) ==
    /\ ReservationRequired \subseteq DOMAIN rec
    /\ DOMAIN rec \subseteq ReservationKeys
    /\ DateParses(Fields(rec.check_in[2]))
    /\ DateParses(Fields(rec.check_out[2]))
    /\ DateLess(Fields(rec.check_in[2]), Fields(rec.check_out[2]))
    /\ "status" \in DOMAIN rec => rec.status \in Statuses

FailsValidation(rec) == ~PassesValidation(rec)

IsSkipLine(line) == line[1] = "Error al cargar reserva. Se omite."

\* C16: Reservation.load_all on a stored list of records returns exactly the
\* records that pass validation, in stored order, prints for each of the
\* others, in stored order, a line with its id (or the placeholder when it
\* has none), and never raises.
C16_ReservationLoadSkips ==
    ( Done("Reservation.load_all") /\ call.arg.kind = "list" )
    =>
    LET valid == SelectSeq(call.arg.items, PassesValidation)
        invalid == SelectSeq(call.arg.items, FailsValidation)
        skips == SelectSeq(out, IsSkipLine)
    IN  /\ ret.raised = ""
        /\ Len(ret.value) = Len(valid)
        /\ \A i \in 1..Len(valid) :
              /\ \A k \in {"id", "hotel_id", "customer_id", "room_number"} :
                    ret.value[i][k] = valid[i][k]
              /\ ret.value[i].check_in = Fields(valid[i].check_in[2])
              /\ ret.value[i].check_out = Fields(valid[i].check_out[2])
              /\ ret.value[i].status =
                    IF "status" \in DOMAIN valid[i] THEN valid[i].status ELSE "ACTIVE"
        /\ Len(skips) = Len(invalid)
        /\ \A i \in 1..Len(invalid) :
              skips[i][2] = IF "id" \in DOMAIN invalid[i] THEN invalid[i].id
                            ELSE "<sin id>"

\* three stored records, the second without id and the first with an unknown
\* status: the third alone is returned
C16_Witness ==
    /\ Done("Reservation.load_all")
    /\ call.arg.kind = "list"
    /\ Len(call.arg.items) = 3
    /\ "id" \notin DOMAIN call.arg.items[2]
    /\ "status" \in DOMAIN call.arg.items[1]
    /\ call.arg.items[1].status = "PENDING"
    /\ ret.raised = ""
    /\ Len(ret.value) = 1
    /\ ret.value[1].id = "R101"
    /\ Len(out) = 2

\* a stored hotel record a Hotel can be made from
HotelRecordValid(rec) ==
    /\ DOMAIN rec = HotelKeys
    /\ ~(rec.total_rooms < 0)
    /\ 0 <= rec.available_rooms /\ rec.available_rooms <= rec.total_rooms

\* a stored customer record a Customer can be made from
CustomerRecordValid(rec) == DOMAIN rec = CustomerKeys

\* C17: Hotel.load_all and Customer.load_all skip a malformed or invalid
\* stored record as Reservation.load_all does: they return the valid records
\* of the stored list, in stored order, and raise nothing.
C17_HotelCustomerLoadSkips ==
    /\ ( Done("Hotel.load_all") /\ call.arg.kind = "list" )
       =>
       LET valid == SelectSeq(call.arg.items, HotelRecordValid)
       IN  /\ ret.raised = ""
           /\ Len(ret.value) = Len(valid)
           /\ \A i \in 1..Len(valid) : ret.value[i].id = valid[i].id
    /\ ( Done("Customer.load_all") /\ call.arg.kind = "list" )
       =>
       LET valid == SelectSeq(call.arg.items, CustomerRecordValid)
       IN  /\ ret.raised = ""
           /\ Len(ret.value) = Len(valid)
           /\ \A i \in 1..Len(valid) : ret.value[i].id = valid[i].id

\* C18: Hotel(...) raises exactly when total_rooms < 0 or available_rooms is
\* outside [0, total_rooms]; for every other pair of integers it returns the
\* hotel with these two counts.
C18_HotelConstruction ==
    Done("Hotel") =>
    LET total == call.arg[1]
        available == call.arg[2]
    IN  IF total < 0 \/ available < 0 \/ available > total
        THEN ret.raised = "ValueError"
        ELSE /\ ret.raised = ""
             /\ ret.value.total_rooms = total
             /\ ret.value.available_rooms = available

\* Hotel(total_rooms = 1, available_rooms = 2) raised
C18_Witness ==
    /\ Done("Hotel")
    /\ call.arg = <<1, 2>>
    /\ ret.raised = "ValueError"

\* the date that a date field of a call stands for, when it is a date or the
\* ISO text of one
StandsFor(v, d) == v = Date(d) \/ v = Text(isoformat(d))

\* C19: Reservation(...) raises whenever check_in >= check_out (equal dates
\* included) or the status is neither ACTIVE nor CANCELLED, and returns the
\* reservation whenever check_in < check_out and the status is one of the
\* two; the dates are given as dates or as their ISO texts.
C19_ReservationConstruction ==
    Done("Reservation") =>
    \A ci \in SampleDates, co \in SampleDates :
        ( StandsFor(call.arg[1], ci) /\ StandsFor(call.arg[2], co) )
        =>
        IF ~DateLess(ci, co) \/ call.arg[3] \notin {"ACTIVE", "CANCELLED"}
        THEN ret.raised = "ValueError"
        ELSE /\ ret.raised = ""
             /\ ret.value.check_in = ci
             /\ ret.value.check_out = co
             /\ ret.value.status = call.arg[3]

\* Reservation(...) raised for check_in = check_out, given as a date and as a
\* text, with status ACTIVE
C19_Witness ==
    /\ Done("Reservation")
    /\ call.arg = <<Date(<<2024, 2, 29>>), Text(isoformat(<<2024, 2, 29>>)), "ACTIVE">>
    /\ ret.raised = "ValueError"

\* C20: from_dict(to_dict(e)) = e, field by field, for every valid Hotel,
\* Customer and Reservation e; the two dates of a reservation come back
\* exactly from their ISO texts.
C20_RoundTrip ==
    \A fn \in {"Hotel.from_dict(to_dict)", "Customer.from_dict(to_dict)",
                "Reservation.from_dict(to_dict)"} :
        Done(fn) =>
            /\ ret.raised = ""
            /\ DOMAIN ret.value = DOMAIN call.arg
            /\ \A k \in DOMAIN call.arg : ret.value[k] = call.arg[k]

\* a reservation from 9 October 999 to 29 February 2024 came back
C20_Witness ==
    /\ Done("Reservation.from_dict(to_dict)")
    /\ ret.raised = ""
    /\ ret.value.check_in = <<999, 10, 9>>
    /\ ret.value.check_out = <<2024, 2, 29>>

\* C21: from_dict raises, and returns no instance, whenever the mapping lacks
\* a key of the record of its class; for a Reservation the keys are id,
\* hotel_id, customer_id, room_number, check_in, check_out and status.
C21_MissingKeyFails ==
    \A fn \in {"Hotel.from_dict", "Customer.from_dict", "Reservation.from_dict"} :
        Done(fn) => ret.raised # ""

\* a menu function is between its load and its return
InFlight == call.stage = "running"

\* the file named f is still to be written by the running function
ToWrite(f) == \E i \in 1..Len(call.saves) : call.saves[i] = f

\* C22: a save that hits an I/O failure prints a diagnostic and returns:
\* from every state where the running function has a save to make, whether
\* the save succeeds or fails, the function goes on to its next save with
\* the result it computed (it is not left), and a save that did not store
\* the computed list printed the diagnostic.
C22_SaveFailureNonFatal ==
    [][ (InFlight /\ call.saves # <<>>)
        =>
        /\ call'.stage = "running"
        /\ call'.saves = Tail(call.saves)
        /\ call'.result = call.result
        /\ Stored'[Head(call.saves)] # call.result[Head(call.saves)]
              => out' = Append(out, "Error de E/S al escribir") ]_vars

\* create_reservation ran to its end after one of its saves failed
C22_Witness ==
    /\ call.stage = "idle"
    /\ Len(out) = 3
    /\ out[1] = "Error de E/S al escribir"
    /\ out[2] = "Reserva creada con ID"

\* C24: in create_reservation and cancel_reservation the reservations file
\* is written before the hotels file: while the reservations are still to
\* be written the hotels file is as it was loaded, and once they are
\* written they are not written again by the same function; so there is
\* a state between the two writes (C24_Witness).
C24_ReservationsWrittenFirst ==
    InFlight =>
        /\ ToWrite("reservations") => hotels = call.before.hotels
        /\ \A i, j \in 1..Len(call.saves) :
              (call.saves[i] = "reservations" /\ call.saves[j] = "hotels") => i < j

\* between the two writes of create_reservation: the new ACTIVE reservation
\* is stored, the hotels file is still to be written and the hotel has the
\* available_rooms it had before
C24_Witness ==
    /\ InFlight
    /\ call.saves = <<"hotels">>
    /\ reservations = call.result.reservations
    /\ Len(reservations) = Len(call.before.reservations) + 1
    /\ reservations[Len(reservations)].status = "ACTIVE"
    /\ hotels = call.before.hotels
    /\ hotels # call.result.hotels

\* C23: the persisted hotels have pairwise distinct ids and the persisted
\* customers have pairwise distinct ids, and create_hotel (create_customer)
\* with an id already present is refused and changes nothing.
C23_EntityIdsUnique ==
    /\ \A i, j \in 1..Len(hotels) : i # j => hotels[i].id # hotels[j].id
    /\ \A i, j \in 1..Len(customers) : i # j => customers[i].id # customers[j].id
    /\ \A hid \in HotelIds, total \in RoomCounts, available \in RoomCounts :
          hid \in StoredHotelIds(hotels) =>
          LET after == create_hotel(Stored, hid, "Sol", "CDMX", total, available)
          IN  /\ after.hotels = hotels
              /\ after.customers = customers
              /\ after.reservations = reservations
              /\ after.out = <<"Error: ya existe un hotel con ese ID.">>
    /\ \A cid \in CustomerIds :
          FirstWithId(customers, cid) # 0 =>
          LET after == create_customer(Stored, cid, "Ana", "ana@mail.mx", "555")
          IN  /\ after.hotels = hotels
              /\ after.customers = customers
              /\ after.reservations = reservations
              /\ after.out = <<"Error: ya existe un cliente con ese ID.">>

\* create_hotel was refused for an id already present, with two hotels stored
C23_Witness ==
    /\ out = <<"Error: ya existe un hotel con ese ID.">>
    /\ Len(hotels) = 2
    /\ Len(customers) = 1

\* C25: from empty files, with every save succeeding, every ACTIVE
\* reservation has its hotel in the hotels file and its customer in the
\* customers file, and cancel_reservation never prints that the hotel of
\* the reservation does not exist.
C25_ActiveReferencesStored ==
    /\ \A i \in 1..Len(reservations) :
          reservations[i].status = "ACTIVE" =>
              /\ reservations[i].hotel_id \in StoredHotelIds(hotels)
              /\ FirstWithId(customers, reservations[i].customer_id) # 0
    /\ ~Printed("Aviso: hotel de la reserva no existe. No se ajusto stock.")

\* the delete of a hotel was refused because of its ACTIVE reservation, while
\* a CANCELLED reservation of a hotel deleted earlier is stored
C25_Witness ==
    /\ out = <<"No se puede eliminar: hay reservaciones ACTIVAS para este hotel.">>
    /\ \E i \in 1..Len(reservations) : reservations[i].status = "ACTIVE"
    /\ \E i \in 1..Len(reservations) :
          /\ reservations[i].status = "CANCELLED"
          /\ reservations[i].hotel_id \notin StoredHotelIds(hotels)

\* the records of the reservations file that Reservation.load_all skips
SkippedIn(doc) == {doc[i] : i \in {j \in 1..Len(doc) : ~ReservationLoads(doc[j])}}

\* the file holds this record
StoredIn(doc, rec) == \E i \in 1..Len(doc) : doc[i] = rec

\* C26: in every reachable state, a create_reservation or cancel_reservation
\* that saves writes a reservations file holding none of the records that
\* load_all skipped: the file is the records that load, in their order, with
\* the one change of the function, and the id given by create_reservation is
\* 100 + (number of records that load) + 1; and no later step that changes
\* the reservations file leaves a skipped record in it.
C26_SkippedRecordsDropped ==
  /\ [][reservations' # reservations => SkippedIn(reservations') = {}]_vars
  /\ []
    LET loaded == SelectSeq(reservations, ReservationLoads)
    IN  /\ \A hotel_id \in HotelIds, customer_id \in CustomerIds,
              room \in RoomNumbers, check_in \in DateStrings,
              check_out \in DateStrings :
              LET after == create_reservation(Stored, hotel_id, customer_id,
                                              room, check_in, check_out)
              IN  after.saves # <<>> =>
                      /\ Head(after.saves) = "reservations"
                      /\ \A rec \in SkippedIn(reservations) :
                             ~StoredIn(after.reservations, rec)
                      /\ Len(after.reservations) = Len(loaded) + 1
                      /\ SubSeq(after.reservations, 1, Len(loaded)) = loaded
                      /\ after.reservations[Len(loaded) + 1].id
                             = 100 + Len(loaded) + 1
                      /\ after.out = <<"Reserva creada con ID",
                                       100 + Len(loaded) + 1>>
        /\ \A res_id \in ResIds :
              LET after == cancel_reservation(Stored, res_id)
              IN  after.saves # <<>> =>
                      /\ Head(after.saves) = "reservations"
                      /\ \A rec \in SkippedIn(reservations) :
                             ~StoredIn(after.reservations, rec)
                      /\ Len(after.reservations) = Len(loaded)
                      /\ \A i \in 1..Len(loaded) :
                             after.reservations[i] =
                                 IF i = FirstWithId(loaded, res_id)
                                 THEN [loaded[i] EXCEPT !.status = "CANCELLED"]
                                 ELSE loaded[i]

\* create_reservation ran on a file whose only record was skipped: the file
\* now holds the new reservation alone, with the id R101 of an empty list
C26_Witness ==
    /\ out = <<"Reserva creada con ID", 101>>
    /\ Len(reservations) = 1
    /\ reservations[1].id = 101
    /\ reservations[1].status = "ACTIVE"
    /\ reservations[1].hotel_id = "H002"

====
